---- MODULE Spec2Model ----
(***************************************************************************)
(* Receipt printer: the POST /print request boundary (server) and the      *)
(* printReceipt pipeline (printer.js): asset resolution into temp raster   *)
(* files, body splitting on the divider marker, the printer connection     *)
(* with its timeout timer, the directive stream, and temp-file cleanup.    *)
(*                                                                         *)
(* Strings are sequences of one-character strings.  A directive is a       *)
(* record [op, arg] whose arg is always a sequence of strings.             *)
(***************************************************************************)
EXTENDS Integers, Sequences, FiniteSets, TLC

\* ------------------------------------------------------------------ bounds
MaxPieces == 3
MaxClock == 1
MaxOver == 1

\* ------------------------------------------------------- program constants
MAX_BODY_LEN == 4000
PRINTER_WIDTH_PX == 576
FOOTER_IMAGE_WIDTH_PX == ((PRINTER_WIDTH_PX * 8) + 5) \div 10

DIVIDER_MARKER == <<"{", "{", "d", "i", "v", "i", "d", "e", "r", "}", "}">>

\* The characters of the template literal, line by line.
BRANDED_FOOTER ==
  <<
    "-", " ", "-", " ", "-", "\n",
    "\n",
    "U", "n", "u", "s", "u", "a", "l", " ", "C", "o", "f", "f", "e", "e", "\n",
    "V", "i", "s", "i", "t", " ", "u", "s", " ", "a", "t", " ", "u", "n", "u", "s", "u", "a", "l", ".", "c", "o", "f", "f", "e", "e", "\n",
    "\n",
    "-", " ", "-", " ", "-", "\n",
    "\n",
    "T", "h", "a", "n", "k", " ", "y", "o", "u", "!"
  >>

NL2 == <<"\n", "\n">>

Whitespace == {" ", "\n", "\t", "\r"}

\* ------------------------------------------------------------ string model
\* String.prototype.trim: drop leading and trailing whitespace.
Trim(s) ==
  IF \A i \in 1..Len(s) : s[i] \in Whitespace THEN <<>>
  ELSE LET lo == CHOOSE i \in 1..Len(s) :
                   s[i] \notin Whitespace /\ \A j \in 1..(i - 1) : s[j] \in Whitespace
           hi == CHOOSE i \in 1..Len(s) :
                   s[i] \notin Whitespace /\ \A j \in (i + 1)..Len(s) : s[j] \in Whitespace
       IN  SubSeq(s, lo, hi)

\* Does sep occur in s at index i?
MatchAt(s, sep, i) ==
  /\ i >= 1
  /\ i + Len(sep) - 1 <= Len(s)
  /\ SubSeq(s, i, i + Len(sep) - 1) = sep

\* Index of the first occurrence of sep in s at or after from, 0 when none
\* (String.prototype.indexOf, shifted to 1-based, 0 for "not found").
IndexOf(s, sep, from) ==
  LET hits == {i \in from..(Len(s) - Len(sep) + 1) : MatchAt(s, sep, i)}
  IN  IF hits = {} THEN 0
      ELSE CHOOSE i \in hits : \A j \in hits : i <= j

RECURSIVE SplitFrom(_, _, _)
SplitFrom(s, sep, from) ==
  LET i == IndexOf(s, sep, from)
  IN  IF i = 0 THEN <<SubSeq(s, from, Len(s))>>
      ELSE <<SubSeq(s, from, i - 1)>> \o SplitFrom(s, sep, i + Len(sep))

\* A split that loses the text after the last separator.
SplitDropLast(s, sep) ==
  LET all == SplitFrom(s, sep, 1)
  IN  IF Len(all) > 1 THEN SubSeq(all, 1, Len(all) - 1) ELSE all

\* String.prototype.split with a non-empty string separator: scan left to
\* right, cut at each occurrence, resume after it.
Split(s, sep) == SplitFrom(s, sep, 1)

\* ------------------------------------------------------------- directives
Raw(bytes) == [op |-> "raw", arg |-> bytes]
Text(s) == [op |-> "text", arg |-> s]
Align(a) == [op |-> "align", arg |-> <<a>>]
Raster(image) == [op |-> "raster", arg |-> image]
Style(t) == [op |-> "style", arg |-> <<t>>]
Feed(n) == [op |-> "feed", arg |-> <<ToString(n)>>]
Cut == [op |-> "cut", arg |-> <<>>]

RESET == <<"1b", "40">>
DENSITY_15 == <<"1d", "28", "45", "02", "00", "31", "0f">>
DENSITY_8 == <<"1d", "28", "45", "02", "00", "31", "08">>

\* ---------------------------------------------------------------- JS values
\* A request field: [t |-> typeof, s |-> its characters].
Undefined == [t |-> "undefined", s |-> <<>>]
Str(s) == [t |-> "string", s |-> s]
Num(digits) == [t |-> "number", s |-> digits]

Truthy(v) ==
  \/ v.t = "string" /\ v.s # <<>>
  \/ v.t = "number" /\ v.s # <<"0">>

\* v || null
OrNull(v) == IF Truthy(v) THEN v ELSE Undefined

\* No image (null).
NoImage == <<>>

\* ------------------------------------------------ composing the directives
\* Header block, printer.js 172-177.
EmitHeader(headerImage) ==
  <<Raw(RESET), Text(NL2), Align("ct"), Raster(headerImage), Text(NL2)>>

\* An iteration that skips a blank segment altogether, divider included.
EmitSegmentSkipBlank(segment, index, count, dividerImage) ==
  IF Trim(segment) = <<>> THEN <<>>
  ELSE <<Align("lt"), Text(segment)>>
       \o (IF index < count - 1 /\ dividerImage # NoImage
           THEN <<Align("ct"), Raster(dividerImage)>> ELSE <<>>)

\* One iteration of bodySegments.forEach, printer.js 180-190.
EmitSegment(segment, index, count, dividerImage) ==
  (IF Trim(segment) # <<>> THEN <<Align("lt"), Text(segment)>> ELSE <<>>)
  \o (IF index < count - 1 /\ dividerImage # NoImage
      THEN <<Align("ct"), Raster(dividerImage)>> ELSE <<>>)

RECURSIVE EmitSegmentsFrom(_, _, _)
EmitSegmentsFrom(bodySegments, index, dividerImage) ==
  IF index >= Len(bodySegments) THEN <<>>
  ELSE EmitSegment(bodySegments[index + 1], index, Len(bodySegments), dividerImage)
       \o EmitSegmentsFrom(bodySegments, index + 1, dividerImage)

\* bodySegments.forEach(...) followed by the blank feed, printer.js 180-192.
EmitBody(bodySegments, dividerImage) ==
  EmitSegmentsFrom(bodySegments, 0, dividerImage) \o <<Text(NL2)>>

\* A body image block that leaves the alignment where the body left it.
EmitBodyImageNoAlign(bodyImage) ==
  IF bodyImage # NoImage THEN <<Raster(bodyImage), Text(NL2)>> ELSE <<>>

\* Body image block, printer.js 195-197.
EmitBodyImage(bodyImage) ==
  IF bodyImage # NoImage
  THEN <<Align("ct"), Raster(bodyImage), Text(NL2)>> ELSE <<>>

\* A footer block that leaves the bold style and the density 15 on.
EmitBrandedFooterNoRestore ==
  <<Align("ct"), Raw(DENSITY_15), Style("b"), Text(BRANDED_FOOTER), Text(NL2)>>

\* Branded footer block, printer.js 200-207.
EmitBrandedFooter ==
  <<Align("ct"), Raw(DENSITY_15), Style("b"), Text(BRANDED_FOOTER),
    Style("NORMAL"), Raw(DENSITY_8), Text(NL2)>>

\* orderDetails.trim() on a value that is not a string throws a TypeError.
OrderDetailsThrows(orderDetails) ==
  Truthy(orderDetails) /\ orderDetails.t # "string"

\* Order details block, printer.js 210-216.
EmitOrderDetails(orderDetails) ==
  IF Truthy(orderDetails) /\ Trim(orderDetails.s) # <<>>
  THEN <<Text(NL2), Align("lt"), Text(Trim(orderDetails.s)), Text(NL2)>>
  ELSE <<>>

\* A footer block that centres even when there is no footer image.
EmitFooterImageAlignFirst(footerImage) ==
  <<Align("ct")>> \o (IF footerImage # NoImage THEN <<Raster(footerImage)>> ELSE <<>>)

\* Footer image block, printer.js 219-221.
EmitFooterImage(footerImage) ==
  IF footerImage # NoImage THEN <<Align("ct"), Raster(footerImage)>> ELSE <<>>

\* Feed and cut, printer.js 224-226.
EmitFeedCut == <<Feed(3), Cut>>

\* What the try block of the open callback puts in the printer's buffer
\* before it throws (printer.js 172-207, the throw is at 210).
ComposePrefix(images, bodySegments) ==
  EmitHeader(images["header"])
  \o EmitBody(bodySegments, images["divider"])
  \o EmitBodyImage(images["body"])
  \o EmitBrandedFooter

\* A stream with the footer image ahead of the order details.
ComposeFooterImageFirst(images, bodySegments, orderDetails) ==
  ComposePrefix(images, bodySegments)
  \o EmitFooterImage(images["footer"])
  \o EmitOrderDetails(orderDetails)
  \o EmitFeedCut

\* The whole directive stream of a run that does not throw, printer.js 172-226.
Compose(images, bodySegments, orderDetails) ==
  ComposePrefix(images, bodySegments)
  \o EmitOrderDetails(orderDetails)
  \o EmitFooterImage(images["footer"])
  \o EmitFeedCut

\* ------------------------------------------------------------------- state
VARIABLES
  assets,     \* the fixed-name image files present beside printer.js
  req,        \* req[p]: the fields of the p-th POST /print request
  pc,         \* pc[p]: where the handler / printReceipt of request p stands
  role,       \* role[p]: the image role printReceipt is resolving
  call,       \* call[p]: the arguments printReceipt was invoked with
  now,        \* Date.now()
  fs,         \* os.tmpdir(): path -> file contents
  tempFiles,  \* tempFiles[p]: the tempFiles array of the call
  images,     \* images[p][r]: headerImage, dividerImage, footerImage, bodyImage
  bodySegments, \* bodySegments[p]
  conn,       \* conn[p]: the state of the call's network device
  timer,      \* timer[p]: the setTimeout of the connection promise
  promise,    \* promise[p]: the connection promise
  buffer,     \* buffer[p]: directives the Printer has buffered
  sent,       \* sent[p]: directives written to the socket
  error,      \* error[p]: what printReceipt rejected with ("" = nothing)
  warned,     \* warned[p]: the paths console.warn reported as not deleted
  status      \* status[p]: the HTTP status answered (0 = none yet)

vars == <<assets, req, pc, role, call, now, fs, tempFiles, images,
          bodySegments, conn, timer, promise, buffer, sent, error, warned,
          status>>

Ids == DOMAIN req

AssetRoles == {"header", "divider", "footer"}
Roles == <<"header", "divider", "footer", "body">>
RoleIndex(r) == CHOOSE i \in 1..Len(Roles) : Roles[i] = r

\* HEADER_LOGO_PATH, DIVIDER_IMAGE_PATH, FOOTER_IMAGE_PATH and the upload.
SourceOf(p, r) ==
  CASE r = "header" -> "logo.png"
    [] r = "divider" -> "divider-long.png"
    [] r = "footer" -> "footer-image-1.png"
    [] r = "body" -> call[p].bodyImageBuffer

\* The width each role is resized to, printer.js 90, 103-106, 120-123, 136-139.
WidthOf(r) == IF r \in {"header", "divider"} THEN PRINTER_WIDTH_PX
              ELSE FOOTER_IMAGE_WIDTH_PX

\* processImage(buffer, width): the thresholded raster of that source at
\* that width.
processImage(source, width) == <<source, ToString(width)>>

\* path.join(os.tmpdir(), `receipt-<role>-${Date.now()}.png`)
TempPath(r, t) ==
  <<CASE r = "header" -> "receipt-header-"
      [] r = "divider" -> "receipt-divider-"
      [] r = "footer" -> "receipt-footer-"
      [] r = "body" -> "receipt-body-img-", t>>

\* Is role r to be resolved by call p?  fs.existsSync(...) for the assets,
\* if (bodyImageBuffer) for the upload.
Wanted(p, r) ==
  IF r = "body" THEN call[p].bodyImageBuffer # "" ELSE r \in assets

\* The roles after r that the call still resolves, in source order.
LaterRoles(p, r) == {q \in 1..Len(Roles) : q > RoleIndex(r) /\ Wanted(p, Roles[q])}

NoImages == [r \in {"header", "divider", "footer", "body"} |-> NoImage]

NoCall == [invoked |-> FALSE, body |-> <<>>, bodyImageBuffer |-> "",
           orderDetails |-> Undefined]

TypeOK ==
  /\ assets \subseteq AssetRoles
  /\ now \in 0..MaxClock
  /\ \A p \in Ids :
       /\ pc[p] \in {"new", "process", "load", "connect", "done"}
       /\ conn[p] \in {"none", "pending", "closing", "closed", "failed"}
       /\ timer[p] \in {"unset", "armed", "cleared", "fired"}
       /\ promise[p] \in {"none", "pending", "resolved", "rejected"}
       /\ status[p] \in {0, 200, 400, 500}
\* ----------------------------------------------------------------- helpers
Range(f) == {f[i] : i \in DOMAIN f}

Min(S) == CHOOSE i \in S : \A j \in S : i <= j

WriteFile(files, path, data) ==
  [q \in DOMAIN files \cup {path} |-> IF q = path THEN data ELSE files[q]]

RemoveFiles(files, paths) == [q \in DOMAIN files \ paths |-> files[q]]

\* A cleanup that runs only when the call succeeded.
SettleOnSuccessOnly(p, err) ==
  /\ fs' = IF err = "" THEN RemoveFiles(fs, Range(tempFiles[p])) ELSE fs
  /\ warned' = warned
  /\ error' = [error EXCEPT ![p] = err]
  /\ status' = [status EXCEPT ![p] = IF err = "" THEN 200 ELSE 500]
  /\ pc' = [pc EXCEPT ![p] = "done"]

\* The finally block of printReceipt (238-249) and, once the returned
\* promise has settled, the handler's answer (server 61, 62-65).  Each
\* fs.unlinkSync may throw; the catch only warns and the file stays.
Settle(p, err) ==
  LET existing == {path \in Range(tempFiles[p]) : path \in DOMAIN fs}
  IN  /\ \E failed \in SUBSET existing :
           /\ fs' = RemoveFiles(fs, existing \ failed)
           /\ warned' = [warned EXCEPT ![p] = failed]
      /\ error' = [error EXCEPT ![p] = err]
      /\ status' = [status EXCEPT ![p] = IF err = "" THEN 200 ELSE 500]
      /\ pc' = [pc EXCEPT ![p] = "done"]

\* resolve() / reject(err) of the connection promise: only the first one
\* settles it, and the await at 155 then falls through to the finally.
Finish(p, outcome, err) ==
  IF promise[p] = "pending"
  THEN /\ promise' = [promise EXCEPT ![p] = outcome]
       /\ Settle(p, err)
  ELSE UNCHANGED <<promise, fs, error, warned, status, pc>>

\* clearTimeout(timeoutId)
ClearTimeout(p) ==
  timer' = [timer EXCEPT ![p] = IF @ = "armed" THEN "cleared" ELSE @]

\* ----------------------------------------------------- the request boundary
\* A validation that forgets the length limit.
BodyRejectedNoLimit(body) ==
  ~Truthy(body) \/ body.t # "string" \/ Len(Trim(body.s)) = 0

\* The validation of server 35-41.
BodyRejected(body) ==
  \/ ~Truthy(body) \/ body.t # "string" \/ Len(Trim(body.s)) = 0
  \/ Len(body.s) > MAX_BODY_LEN

\* A header check that never fails.
HeaderLogoAssumed == TRUE

\* fs.existsSync(HEADER_LOGO_PATH), printer.js 84.
HeaderLogoExists == "header" \in assets

\* POST /print with a body the validation refuses: 400, nothing else.
PostInvalid(p) ==
  /\ pc[p] = "new"
  /\ BodyRejected(req[p].body)
  /\ status' = [status EXCEPT ![p] = 400]
  /\ pc' = [pc EXCEPT ![p] = "done"]
  /\ UNCHANGED <<assets, req, role, call, now, fs, tempFiles, images,
                 bodySegments, conn, timer, promise, buffer, sent, error,
                 warned>>

\* POST /print with a valid body: printReceipt is called and runs to its
\* first await (the header's processImage), or throws at 85.
PostValid(p) ==
  /\ pc[p] = "new"
  /\ ~BodyRejected(req[p].body)
  /\ call' = [call EXCEPT ![p] =
                [invoked |-> TRUE,
                 body |-> Trim(req[p].body.s),
                 bodyImageBuffer |-> req[p].file,
                 orderDetails |-> OrNull(req[p].orderDetails)]]
  /\ IF HeaderLogoExists
     THEN /\ pc' = [pc EXCEPT ![p] = "process"]
          /\ role' = [role EXCEPT ![p] = "header"]
          /\ UNCHANGED <<fs, error, warned, status>>
     ELSE /\ Settle(p, "Header logo not found: logo.png must exist in project root")
          /\ UNCHANGED role
  /\ UNCHANGED <<assets, req, now, tempFiles, images, bodySegments, conn,
                 timer, promise, buffer, sent>>

\* -------------------------------------------------------- resolving images
\* processImage resolves: write the temp file, remember it, start loading.
ProcessImageResolves(p) ==
  /\ pc[p] = "process"
  /\ LET path == TempPath(role[p], now)
         data == processImage(SourceOf(p, role[p]), WidthOf(role[p]))
     IN  /\ fs' = WriteFile(fs, path, data)
         /\ tempFiles' = [tempFiles EXCEPT ![p] = Append(@, path)]
  /\ pc' = [pc EXCEPT ![p] = "load"]
  /\ UNCHANGED <<assets, req, role, call, now, images, bodySegments, conn,
                 timer, promise, buffer, sent, error, warned, status>>

\* processImage rejects (sharp cannot decode the input).
ProcessImageRejects(p) ==
  /\ pc[p] = "process"
  /\ Settle(p, "Input buffer contains unsupported image format")
  /\ UNCHANGED <<assets, req, role, call, now, tempFiles, images,
                 bodySegments, conn, timer, promise, buffer, sent>>

\* After a role is loaded: on to the next role that is there, or, when none
\* is left, split the body, create the device, arm the timer and open
\* (149-160).
Advance(p) ==
  IF LaterRoles(p, role[p]) # {}
  THEN /\ pc' = [pc EXCEPT ![p] = "process"]
       /\ role' = [role EXCEPT ![p] = Roles[Min(LaterRoles(p, role[p]))]]
       /\ UNCHANGED <<bodySegments, conn, timer, promise>>
  ELSE /\ pc' = [pc EXCEPT ![p] = "connect"]
       /\ bodySegments' = [bodySegments EXCEPT ![p] = Split(call[p].body, DIVIDER_MARKER)]
       /\ conn' = [conn EXCEPT ![p] = "pending"]
       /\ timer' = [timer EXCEPT ![p] = "armed"]
       /\ promise' = [promise EXCEPT ![p] = "pending"]
       /\ UNCHANGED role

\* loadEscposImage resolves with what the temp file holds.
LoadResolves(p) ==
  /\ pc[p] = "load"
  /\ LET path == tempFiles[p][Len(tempFiles[p])]
     IN  /\ path \in DOMAIN fs
         /\ images' = [images EXCEPT ![p][role[p]] = fs[path]]
  /\ Advance(p)
  /\ UNCHANGED <<assets, req, call, now, fs, tempFiles, buffer, sent, error,
                 warned, status>>

\* loadEscposImage rejects: the file is gone, or its data is not an image.
LoadRejects(p) ==
  /\ pc[p] = "load"
  /\ LET path == tempFiles[p][Len(tempFiles[p])]
     IN  Settle(p, IF path \in DOMAIN fs
                   THEN "Failed to load image: invalid image data"
                   ELSE "Failed to load image: no such file")
  /\ UNCHANGED <<assets, req, role, call, now, tempFiles, images,
                 bodySegments, conn, timer, promise, buffer, sent>>

\* ---------------------------------------------------- the printer connection
\* device.open calls back with an error (161-166).
OpenFails(p) ==
  /\ conn[p] = "pending"
  /\ conn' = [conn EXCEPT ![p] = "failed"]
  /\ ClearTimeout(p)
  /\ Finish(p, "rejected", "Failed to connect to printer")
  /\ UNCHANGED <<assets, req, role, call, now, tempFiles, images,
                 bodySegments, buffer, sent>>

\* device.open calls back connected and the whole stream is built; close()
\* flushes the buffer to the socket and starts closing (168-230).
OpenPrints(p) ==
  /\ conn[p] = "pending"
  /\ ~OrderDetailsThrows(call[p].orderDetails)
  /\ buffer' = [buffer EXCEPT ![p] =
                  Compose(images[p], bodySegments[p], call[p].orderDetails)]
  /\ sent' = [sent EXCEPT ![p] = buffer'[p]]
  /\ conn' = [conn EXCEPT ![p] = "closing"]
  /\ UNCHANGED <<assets, req, pc, role, call, now, fs, tempFiles, images,
                 bodySegments, timer, promise, error, warned, status>>

\* device.open calls back connected and building the stream throws
\* (231-235): nothing was flushed, the device is closed.
OpenThrows(p) ==
  /\ conn[p] = "pending"
  /\ OrderDetailsThrows(call[p].orderDetails)
  /\ buffer' = [buffer EXCEPT ![p] = ComposePrefix(images[p], bodySegments[p])]
  /\ conn' = [conn EXCEPT ![p] = "closed"]
  /\ ClearTimeout(p)
  /\ Finish(p, "rejected", "Print failed")
  /\ UNCHANGED <<assets, req, role, call, now, tempFiles, images,
                 bodySegments, sent>>

\* The callback of printer.close (227-230).
CloseCallback(p) ==
  /\ conn[p] = "closing"
  /\ conn' = [conn EXCEPT ![p] = "closed"]
  /\ ClearTimeout(p)
  /\ Finish(p, "resolved", "")
  /\ UNCHANGED <<assets, req, role, call, now, tempFiles, images,
                 bodySegments, buffer, sent>>

\* The setTimeout callback (156-158).
TimerFires(p) ==
  /\ timer[p] = "armed"
  /\ timer' = [timer EXCEPT ![p] = "fired"]
  /\ Finish(p, "rejected", "Printer connection timeout")
  /\ UNCHANGED <<assets, req, role, call, now, tempFiles, images,
                 bodySegments, conn, buffer, sent>>

\* A millisecond passes.
Tick ==
  /\ now < MaxClock
  /\ now' = now + 1
  /\ UNCHANGED <<assets, req, pc, role, call, fs, tempFiles, images,
                 bodySegments, conn, timer, promise, buffer, sent, error,
                 warned, status>>

Next ==
  \/ \E p \in Ids : PostInvalid(p)
  \/ \E p \in Ids : PostValid(p)
  \/ \E p \in Ids : ProcessImageResolves(p)
  \/ \E p \in Ids : ProcessImageRejects(p)
  \/ \E p \in Ids : LoadResolves(p)
  \/ \E p \in Ids : LoadRejects(p)
  \/ \E p \in Ids : OpenFails(p)
  \/ \E p \in Ids : OpenPrints(p)
  \/ \E p \in Ids : OpenThrows(p)
  \/ \E p \in Ids : CloseCallback(p)
  \/ \E p \in Ids : TimerFires(p)
  \/ Tick

\* ------------------------------------------------------------------ inputs
Hello == <<"H", "e", "l", "l", "o">>
World == <<"W", "o", "r", "l", "d">>

Pieces == {Hello, World, <<" ">>, DIVIDER_MARKER, <<"{">>}

RECURSIVE Flatten(_)
Flatten(ps) == IF ps = <<>> THEN <<>> ELSE Head(ps) \o Flatten(Tail(ps))

\* Every concatenation of at most MaxPieces pieces.
Bodies == {Flatten(ps) : ps \in UNION {[1..k -> Pieces] : k \in 0..MaxPieces}}

FewBodies ==
  {Hello \o DIVIDER_MARKER \o World, DIVIDER_MARKER \o Hello, <<" ">>,
   BRANDED_FOOTER}

Files == {"", "imgA"}

OrderDetailsValues ==
  {Undefined, Str(<<" ">>), Str(<<" ", "#", "4", "2">>), Num(<<"7">>),
   Str(BRANDED_FOOTER)}

InitOf(ids) ==
  /\ pc = [p \in ids |-> "new"]
  /\ role = [p \in ids |-> "header"]
  /\ call = [p \in ids |-> NoCall]
  /\ now = 0
  /\ fs = <<>>
  /\ tempFiles = [p \in ids |-> <<>>]
  /\ images = [p \in ids |-> NoImages]
  /\ bodySegments = [p \in ids |-> <<>>]
  /\ conn = [p \in ids |-> "none"]
  /\ timer = [p \in ids |-> "unset"]
  /\ promise = [p \in ids |-> "none"]
  /\ buffer = [p \in ids |-> <<>>]
  /\ sent = [p \in ids |-> <<>>]
  /\ error = [p \in ids |-> ""]
  /\ warned = [p \in ids |-> {}]
  /\ status = [p \in ids |-> 0]

\* One request: every body with no upload and no order details, with and
\* without the divider image; or one of a few bodies with every combination
\* of upload, order details and image files.
Init ==
  /\ \/ /\ \E b \in Bodies :
             req = [p \in {1} |-> [body |-> Str(b), file |-> "",
                                   orderDetails |-> Undefined]]
        /\ assets \in {{"header", "divider"}, {"header"}}
     \/ /\ \E b \in FewBodies, f \in Files, o \in OrderDetailsValues :
             req = [p \in {1} |-> [body |-> Str(b), file |-> f,
                                   orderDetails |-> o]]
        /\ assets \in SUBSET AssetRoles
  /\ InitOf({1})

Spec == Init /\ [][Next]_vars
\* The request boundary: bodies of every type, and bodies around the limit.
Fill(n) == [i \in 1..n |-> "a"]

BoundaryBodies ==
  {Undefined, Num(<<"0">>), Num(<<"7">>), Str(<<>>), Str(<<" ">>),
   Str(<<"\n", " ">>), Str(Hello), Str(<<" ">> \o Hello \o <<" ">>)}
  \cup {Str(Fill(n)) : n \in (MAX_BODY_LEN - 1)..(MAX_BODY_LEN + MaxOver)}
  \cup {Str(Fill(MAX_BODY_LEN) \o <<" ">>),
        Str(<<" ">> \o Fill(MAX_BODY_LEN - 1)),
        Str(Fill(MAX_BODY_LEN - Len(DIVIDER_MARKER)) \o DIVIDER_MARKER)}

InitBoundary ==
  /\ \E b \in BoundaryBodies, f \in Files, o \in {Undefined, Num(<<"7">>)} :
       req = [p \in {1} |-> [body |-> b, file |-> f, orderDetails |-> o]]
  /\ assets \in {AssetRoles, {"header"}, {}}
  /\ InitOf({1})

SpecBoundary == InitBoundary /\ [][Next]_vars

\* Two requests in flight at once, each with its own upload.
ConcurrentSecond ==
  {[body |-> Str(Hello), file |-> "imgB", orderDetails |-> Undefined],
   [body |-> Str(Hello), file |-> "", orderDetails |-> Num(<<"7">>)],
   [body |-> Str(<<" ">>), file |-> "imgB", orderDetails |-> Undefined]}

InitConcurrent ==
  /\ \E second \in ConcurrentSecond :
       req = [p \in {1, 2} |->
                IF p = 1
                THEN [body |-> Str(Hello), file |-> "imgA", orderDetails |-> Undefined]
                ELSE second]
  /\ assets \in {{"header"}, {"header", "footer"}}
  /\ InitOf({1, 2})

SpecConcurrent == InitConcurrent /\ [][Next]_vars
\* ================================================================= claims
\* Vocabulary of the claims, stated on the request text and the emitted
\* stream rather than on the operators that built them.

\* The positions at which the divider marker occurs in s.
Occurrences(s) == {i \in 1..Len(s) : MatchAt(s, DIVIDER_MARKER, i)}

\* The n-th smallest element of a set of integers.
Nth(S, n) == CHOOSE x \in S : Cardinality({y \in S : y < x}) = n - 1

\* The j-th stretch of s between consecutive marker occurrences.
SegmentAt(s, j) ==
  LET occ == Occurrences(s)
      from == IF j = 1 THEN 1 ELSE Nth(occ, j - 1) + Len(DIVIDER_MARKER)
      to == IF j = Cardinality(occ) + 1 THEN Len(s) ELSE Nth(occ, j) - 1
  IN  SubSeq(s, from, to)

NonBlank(seg) == \E i \in 1..Len(seg) : seg[i] \notin Whitespace

\* A stream that went out on the socket: the complete receipt of a call.
Printed(p) == sent[p] # <<>>

\* The body part of a printed stream: after the five directives of the
\* header block, up to the first blank feed.
BodyEnd(stream) ==
  CHOOSE i \in 6..Len(stream) :
    stream[i] = Text(NL2) /\ \A j \in 6..(i - 1) : stream[j] # Text(NL2)

IsDivider(p, d) == d.op = "raster" /\ d.arg = images[p]["divider"]

DividerPositions(p) == {i \in 1..Len(sent[p]) : IsDivider(p, sent[p][i])}

BodyTexts(p, lo, hi) == {i \in lo..hi : sent[p][i].op = "text"}

\* C1: a body with k occurrences of the marker is split into k+1 segments,
\* the stretches between the occurrences (k = 0: the body itself); with a
\* divider image there are exactly k divider rasters, all inside the body
\* part, the n-th one after the output of segments 1..n and before the
\* output of segments n+1..k+1.
C1_DividersBetweenSegments ==
  \A p \in Ids :
    LET body == call[p].body
        k == Cardinality(Occurrences(body))
    IN  /\ conn[p] # "none" =>
             /\ Len(bodySegments[p]) = k + 1
             /\ \A j \in 1..(k + 1) : bodySegments[p][j] = SegmentAt(body, j)
        /\ Printed(p) /\ images[p]["divider"] # NoImage =>
             /\ Cardinality(DividerPositions(p)) = k
             /\ \A n \in 1..k :
                  LET i == Nth(DividerPositions(p), n)
                      end == BodyEnd(sent[p])
                  IN  /\ 6 <= i /\ i < end
                      /\ Cardinality(BodyTexts(p, 6, i - 1))
                           = Cardinality({j \in 1..n : NonBlank(SegmentAt(body, j))})
                      /\ Cardinality(BodyTexts(p, i + 1, end - 1))
                           = Cardinality({j \in (n + 1)..(k + 1) : NonBlank(SegmentAt(body, j))})

C1_Witness ==
  \E p \in Ids :
    /\ Printed(p)
    /\ images[p]["divider"] # NoImage
    /\ Cardinality(Occurrences(call[p].body)) = 2
    /\ NonBlank(SegmentAt(call[p].body, 2))

\* C2: a blank (empty or whitespace-only) segment gives no Text directive:
\* the Text directives of the body part are the non-blank segments, in
\* order; the divider rasters number one less than the segments of the
\* split when the divider image is there and zero otherwise, whichever
\* segments are blank.
C2_BlankSegmentsCountForDividers ==
  \A p \in Ids :
    Printed(p) =>
      LET end == BodyEnd(sent[p])
          texts == SelectSeq(SubSeq(sent[p], 6, end - 1), LAMBDA d : d.op = "text")
          kept == SelectSeq(bodySegments[p], NonBlank)
      IN  /\ Len(texts) = Len(kept)
          /\ \A i \in 1..Len(texts) : texts[i].arg = kept[i] /\ NonBlank(texts[i].arg)
          /\ Cardinality(DividerPositions(p))
               = IF images[p]["divider"] # NoImage
                 THEN Len(bodySegments[p]) - 1 ELSE 0

C2_Witness ==
  \E p \in Ids :
    /\ Printed(p)
    /\ images[p]["divider"] # NoImage
    /\ Len(bodySegments[p]) = 3
    /\ bodySegments[p][2] = <<" ">>
    /\ Cardinality(DividerPositions(p)) = 2
\* The directives the stated order is about: everything but the blank
\* feeds, the alignment, the style and the density commands.
IsLandmark(d) ==
  \/ d.op \in {"raster", "feed", "cut"}
  \/ d.op = "text" /\ d.arg # NL2
  \/ d = Raw(RESET)

Landmarks(stream) == SelectSeq(stream, IsLandmark)

\* Segments and dividers in split order, from the request text.
RECURSIVE SegmentsAndDividers(_, _, _)
SegmentsAndDividers(body, j, dividerImage) ==
  LET k == Cardinality(Occurrences(body))
  IN  IF j > k + 1 THEN <<>>
      ELSE (IF NonBlank(SegmentAt(body, j)) THEN <<Text(SegmentAt(body, j))>> ELSE <<>>)
           \o (IF j <= k /\ dividerImage # NoImage THEN <<Raster(dividerImage)>> ELSE <<>>)
           \o SegmentsAndDividers(body, j + 1, dividerImage)

OrderDetailsText(p) ==
  LET o == call[p].orderDetails
  IN  IF o.t = "string" /\ NonBlank(o.s) THEN <<Text(Trim(o.s))>> ELSE <<>>

OptionalRaster(image) == IF image # NoImage THEN <<Raster(image)>> ELSE <<>>

C4_MissingHeaderFailsFirst ==
  \A p \in Ids :
    "header" \notin assets /\ call[p].invoked =>
      /\ pc[p] = "done"
      /\ error[p] = "Header logo not found: logo.png must exist in project root"
      /\ status[p] = 500
      /\ tempFiles[p] = <<>>
      /\ DOMAIN fs = {}
      /\ images[p] = NoImages
      /\ conn[p] = "none" /\ timer[p] = "unset" /\ promise[p] = "none"
      /\ buffer[p] = <<>> /\ sent[p] = <<>>

C4_Witness ==
  \E p \in Ids :
    /\ "header" \notin assets
    /\ call[p].invoked
    /\ call[p].bodyImageBuffer # ""
    /\ assets # {}
    /\ status[p] = 500
\* The images the call would hold were every optional role resolved: the
\* ones it has, and for a role it lacks the raster of that role's file (of
\* some upload, for the body image).
FullImages(p) ==
  [r \in {"header", "divider", "footer", "body"} |->
     IF images[p][r] # NoImage THEN images[p][r]
     ELSE processImage(IF r = "body" THEN "imgA" ELSE SourceOf(p, r), WidthOf(r))]

FullStream(p) == Compose(FullImages(p), bodySegments[p], call[p].orderDetails)

OptionalRoles == {"divider", "footer", "body"}

Absent(p) == {r \in OptionalRoles : images[p][r] = NoImage}

HasRaster(stream, image) == \E i \in 1..Len(stream) : stream[i] = Raster(image)

NotRaster(d) == d.op # "raster"

\* C5 as stated: a printed stream holds a raster of an optional role
\* exactly when the role was resolved, and its other directives are those
\* of the stream with every role present.
C5_OnlyRastersDiffer ==
  \A p \in Ids :
    Printed(p) =>
      /\ \A r \in OptionalRoles :
           HasRaster(sent[p], FullImages(p)[r]) <=> images[p][r] # NoImage
      /\ SelectSeq(sent[p], NotRaster) = SelectSeq(FullStream(p), NotRaster)

\* The stream with the blocks of the absent roles taken out: the centre
\* alignment and the raster, and for the body image the blank feed after it.
RECURSIVE StripAbsent(_, _, _, _)
StripAbsent(stream, i, full, absent) ==
  IF i > Len(stream) THEN <<>>
  ELSE IF /\ stream[i] = Align("ct")
          /\ i < Len(stream)
          /\ \E r \in absent : stream[i + 1] = Raster(full[r])
       THEN StripAbsent(stream, IF stream[i + 1] = Raster(full["body"]) THEN i + 3 ELSE i + 2,
                        full, absent)
       ELSE <<stream[i]>> \o StripAbsent(stream, i + 1, full, absent)

HeaderError == "Header logo not found: logo.png must exist in project root"

\* C5 amended: an absent optional role never fails the call (the header
\* error needs an absent header, and a call whose close callback came
\* before the timer is answered 200); the footer and body-image rasters are
\* in a printed stream exactly when resolved and the divider rasters number
\* segments-1 when resolved and 0 otherwise; the stream is the stream with
\* every role present less, for each absent role, each of its rasters
\* together with the centre alignment before it (and the blank feed after
\* a body-image raster).
C5_AbsentRolesOmitted ==
  \A p \in Ids :
    /\ error[p] = HeaderError => "header" \notin assets
    /\ Printed(p) /\ conn[p] = "closed" /\ timer[p] = "cleared" =>
         status[p] = 200 /\ error[p] = ""
    /\ Printed(p) =>
         /\ \A r \in {"footer", "body"} :
              HasRaster(sent[p], FullImages(p)[r]) <=> images[p][r] # NoImage
         /\ Cardinality(DividerPositions(p))
              = IF "divider" \in Absent(p) THEN 0 ELSE Len(bodySegments[p]) - 1
         /\ sent[p] = StripAbsent(FullStream(p), 1, FullImages(p), Absent(p))

C5_Witness ==
  \E p \in Ids :
    /\ Printed(p)
    /\ Absent(p) = OptionalRoles
    /\ Len(bodySegments[p]) = 2
    /\ call[p].orderDetails # Undefined
    /\ status[p] = 200
\* A body the boundary must refuse: missing or not a string, blank, or
\* longer than 4000 characters.
BadBody(b) ==
  \/ b.t # "string"
  \/ \A i \in 1..Len(b.s) : b.s[i] \in Whitespace
  \/ Len(b.s) >= 4001

\* C6: a request with such a body is answered 400 as soon as it is handled
\* and printReceipt is never called for it: no temp file, no image, no
\* connection, no timer, no directive; and printReceipt is only ever called
\* with a body of 1..4000 characters that is not blank.
C6_BoundaryRejectsBadBody ==
  \A p \in Ids :
    /\ BadBody(req[p].body) /\ pc[p] # "new" =>
         /\ status[p] = 400
         /\ pc[p] = "done"
         /\ ~call[p].invoked
         /\ tempFiles[p] = <<>> /\ DOMAIN fs = {}
         /\ images[p] = NoImages
         /\ conn[p] = "none" /\ timer[p] = "unset"
         /\ buffer[p] = <<>> /\ sent[p] = <<>>
    /\ call[p].invoked =>
         /\ Len(call[p].body) >= 1
         /\ Len(call[p].body) <= 4000
         /\ NonBlank(call[p].body)

C6_Witness ==
  \E p \in Ids :
    /\ Len(req[p].body.s) = 4001
    /\ NonBlank(req[p].body.s)
    /\ status[p] = 400
\* printReceipt has settled and the handler has answered.
Settled(p) == pc[p] = "done" /\ call[p].invoked

\* The temp files of the call that are still on disk.
Leftover(p) == {path \in Range(tempFiles[p]) : path \in DOMAIN fs}

\* C7 as stated: once printReceipt has settled, none of the temp files it
\* created exists.
C7_TempFilesDeleted ==
  \A p \in Ids : Settled(p) => Leftover(p) = {}

\* C7 amended: once printReceipt has settled, on whichever path, a temp
\* file it created exists only if its unlinkSync threw and was reported by
\* the warning; in particular after the timeout error.
C7_TempFilesDeletedOrWarned ==
  \A p \in Ids : Settled(p) => Leftover(p) \subseteq warned[p]

C7_Witness ==
  \E p \in Ids :
    /\ Settled(p)
    /\ error[p] = "Printer connection timeout"
    /\ Len(tempFiles[p]) = 4
    /\ Leftover(p) = {}
    /\ warned[p] = {}

\* C8: a call that has settled has no connection pending or open: it
\* never opened one, the open failed, or the connection is closed.
C8_ConnectionClosedOnEveryPath ==
  \A p \in Ids : Settled(p) => conn[p] \in {"none", "failed", "closed"}

\* C9: a request answered 500 has had nothing written to the printer.
C9_NoOutputOnError ==
  \A p \in Ids : status[p] = 500 => sent[p] = <<>>

\* A call between its first await and its settling.
Live(p) == pc[p] \in {"process", "load", "connect"}

\* C10: two live calls never hold the same temp path, every image a call
\* holds is the raster of its own source at its role's width, and no load
\* finds its file gone.
C10_NoTempFileCollision ==
  \A p \in Ids :
    /\ \A q \in Ids \ {p} :
         Live(p) /\ Live(q) => Range(tempFiles[p]) \cap Range(tempFiles[q]) = {}
    /\ \A r \in DOMAIN images[p] :
         images[p][r] # NoImage =>
           images[p][r] = processImage(SourceOf(p, r), WidthOf(r))
    /\ error[p] # "Failed to load image: no such file"
\* The printer's setting when directive i of a stream is executed: the
\* argument of the last directive before i that sets it, or the setting the
\* reset leaves when there is none.
LastBefore(stream, i, Sets(_)) ==
  LET at == {j \in 1..(i - 1) : Sets(stream[j])}
  IN  IF at = {} THEN 0 ELSE CHOOSE j \in at : \A h \in at : h <= j

StyleAt(stream, i) ==
  LET j == LastBefore(stream, i, LAMBDA d : d.op = "style")
  IN  IF j = 0 THEN "NORMAL" ELSE stream[j].arg[1]

AlignAt(stream, i) ==
  LET j == LastBefore(stream, i, LAMBDA d : d.op = "align")
  IN  IF j = 0 THEN "lt" ELSE stream[j].arg[1]

\* The density is the n of the last GS ( E 02 00 31 n command, "reset"
\* before the first one.
DensityAt(stream, i) ==
  LET j == LastBefore(stream, i, LAMBDA d : d \in {Raw(DENSITY_15), Raw(DENSITY_8)})
  IN  IF j = 0 THEN "reset" ELSE stream[j].arg[7]

FooterTexts(stream) == {i \in 1..Len(stream) : stream[i] = Text(BRANDED_FOOTER)}

BoldFooterTexts(stream) == {i \in FooterTexts(stream) : StyleAt(stream, i) = "b"}

Rasters(stream) == {i \in 1..Len(stream) : stream[i].op = "raster"}

\* The Text directives of the body part of a printed stream.
SegmentTexts(stream) ==
  {i \in 6..(BodyEnd(stream) - 1) : stream[i].op = "text"}

\* The Text of the order details: the one Text after the footer block that
\* is not a blank feed.
OrderDetailsTexts(stream) ==
  {i \in 1..Len(stream) :
     /\ stream[i].op = "text" /\ stream[i].arg # NL2
     /\ \E f \in BoldFooterTexts(stream) : f < i}

\* C12: in a printed stream every raster (header, divider, body image,
\* footer) is executed with the alignment at centre, and every body segment
\* Text and the order details Text with the alignment at left, for every
\* body, blank segments between two dividers included, and every
\* combination of optional images.
C12_AlignmentAtEachDirective ==
  \A p \in Ids :
    Printed(p) =>
      /\ \A i \in Rasters(sent[p]) : AlignAt(sent[p], i) = "ct"
      /\ \A i \in SegmentTexts(sent[p]) : AlignAt(sent[p], i) = "lt"
      /\ \A i \in OrderDetailsTexts(sent[p]) : AlignAt(sent[p], i) = "lt"
      /\ Cardinality(OrderDetailsTexts(sent[p]))
           = IF call[p].orderDetails.t = "string" /\ NonBlank(call[p].orderDetails.s)
             THEN 1 ELSE 0
      /\ Cardinality(SegmentTexts(sent[p]))
           = Cardinality({j \in 1..Len(bodySegments[p]) : NonBlank(bodySegments[p][j])})

\* Two divider rasters with only a blank segment between them, after a
\* left-aligned segment.
C12_Witness ==
  \E p \in Ids :
    /\ Printed(p)
    /\ Len(bodySegments[p]) = 3
    /\ NonBlank(bodySegments[p][1])
    /\ ~NonBlank(bodySegments[p][2])
    /\ \E i \in DividerPositions(p) :
         /\ i + 2 \in DividerPositions(p)
         /\ sent[p][i + 1] = Align("ct")
         /\ sent[p][i - 2].op = "text"

\* The same with everything optional there: upload, order details, footer.
C12_WitnessAllOptional ==
  \E p \in Ids :
    /\ Printed(p)
    /\ Absent(p) = {}
    /\ OrderDetailsTexts(sent[p]) # {}
    /\ Cardinality(Rasters(sent[p])) = 4
====
